---- MODULE Spec2Model ----
(***************************************************************************)
(* AI Interviewer backend: interview assembly (create_interview) and       *)
(* answer evaluation (evaluate_answers) of src/main.py over the document   *)
(* store reached through create_document / get_documents.                  *)
(*                                                                         *)
(* Python strings are sequences of one-character strings, so that lower(), *)
(* "in" (substring), split() and str.join are computed, not assumed.       *)
(* Floats holding two-decimal results are integers counting hundredths     *)
(* (75.0 is 7500, 33.33 is 3333).                                          *)
(***************************************************************************)
EXTENDS Integers, Sequences, FiniteSets, TLC

VARIABLES
  interviews,   \* the "interview" collection, in insertion order
  evaluations,  \* the "evaluation" collection, in insertion order
  nextId,       \* the next identifier the store assigns
  request,      \* the request the last handler ran on
  track,        \* create_interview's local `track`
  calls,        \* the storage calls the last handler made, in order
  response      \* the HTTP response of the last handler

vars == <<interviews, evaluations, nextId, request, track, calls, response>>

\* ---------------------------------------------------------------------
\* Bounds of the model
\* ---------------------------------------------------------------------
MaxInterviews == 1
MaxEvaluations == 1
MaxAnswers == 2
MaxRoleTokens == 2
MaxScanInterviews == 101

\* ---------------------------------------------------------------------
\* Python string primitives
\* ---------------------------------------------------------------------
\* the letters str.lower() changes
LowerOf ==
  ("A" :> "a") @@ ("B" :> "b") @@ ("C" :> "c") @@ ("D" :> "d") @@ ("E" :> "e")
  @@ ("F" :> "f") @@ ("G" :> "g") @@ ("H" :> "h") @@ ("I" :> "i") @@ ("J" :> "j")
  @@ ("K" :> "k") @@ ("L" :> "l") @@ ("M" :> "m") @@ ("N" :> "n") @@ ("O" :> "o")
  @@ ("P" :> "p") @@ ("Q" :> "q") @@ ("R" :> "r") @@ ("S" :> "s") @@ ("T" :> "t")
  @@ ("U" :> "u") @@ ("V" :> "v") @@ ("W" :> "w") @@ ("X" :> "x") @@ ("Y" :> "y")
  @@ ("Z" :> "z")

LowerChar(c) == IF c \in DOMAIN LowerOf THEN LowerOf[c] ELSE c

\* the list a comprehension over 1..n builds, as an explicit sequence
List(f, n) == SubSeq(f, 1, n)

\* str.lower()
lower(s) == List([i \in 1..Len(s) |-> LowerChar(s[i])], Len(s))

\* `sub in s` on strings: sub occurs at some offset of s
Contains(sub, s) ==
  \E i \in 0..(Len(s) - Len(sub)) : \A j \in 1..Len(sub) : s[i + j] = sub[j]

IsSpace(c) == c = " "

RECURSIVE SplitFrom(_, _, _, _)
SplitFrom(s, i, cur, acc) ==
  IF i > Len(s)
  THEN (IF cur = <<>> THEN acc ELSE Append(acc, cur))
  ELSE IF IsSpace(s[i])
       THEN SplitFrom(s, i + 1, <<>>, IF cur = <<>> THEN acc ELSE Append(acc, cur))
       ELSE SplitFrom(s, i + 1, Append(cur, s[i]), acc)

\* str.split() with no argument: the maximal runs of non-whitespace
split(s) == SplitFrom(s, 1, <<>>, <<>>)

RECURSIVE join(_, _)
\* sep.join(parts)
join(sep, parts) ==
  IF parts = <<>> THEN <<>>
  ELSE IF Len(parts) = 1 THEN parts[1]
  ELSE parts[1] \o sep \o join(sep, Tail(parts))

Digits == <<"0","1","2","3","4","5","6","7","8","9">>

RECURSIVE Str(_)
\* str() of a storage identifier: its decimal numeral
Str(n) == IF n < 10 THEN <<Digits[n + 1]>> ELSE Str(n \div 10) \o <<Digits[(n % 10) + 1]>>

Max(a, b) == IF a >= b THEN a ELSE b
Min(a, b) == IF a <= b THEN a ELSE b

\* Python slice xs[:n] for n >= 0
Prefix(xs, n) == SubSeq(xs, 1, Min(n, Len(xs)))

RECURSIVE SumSeq(_)
SumSeq(xs) == IF xs = <<>> THEN 0 ELSE xs[1] + SumSeq(Tail(xs))

\* ---------------------------------------------------------------------
\* Literals of src/main.py
\* ---------------------------------------------------------------------
W_front == <<"f", "r", "o", "n", "t">>
W_react == <<"r", "e", "a", "c", "t">>
W_back == <<"b", "a", "c", "k">>
W_api == <<"a", "p", "i">>
S_None == <<"N", "o", "n", "e">>
S_InterviewFor == <<"I", "n", "t", "e", "r", "v", "i", "e", "w", " ", "f", "o", "r", " ">>
S_GoodCoverage == <<"G", "o", "o", "d", " ", "c", "o", "v", "e", "r", "a", "g", "e", ".">>
S_MissingPrefix == <<"M", "i", "s", "s", "i", "n", "g", ":", " ">>
S_CommaSpace == <<",", " ">>
S_CouldBeMoreSpecific == <<"C", "o", "u", "l", "d", " ", "b", "e", " ", "m", "o", "r", "e", " ", "s", "p", "e", "c", "i", "f", "i", "c", ".">>

ROLE_DEFAULT(t) ==
  IF t = "frontend" THEN <<"F", "r", "o", "n", "t", "e", "n", "d", " ", "E", "n", "g", "i", "n", "e", "e", "r">>
  ELSE <<"B", "a", "c", "k", "e", "n", "d", " ", "E", "n", "g", "i", "n", "e", "e", "r">>

FrontendBank ==
  <<
     [text |-> "Explain the virtual DOM and how React reconciles updates.",
      keywords |-> <<<<"v", "i", "r", "t", "u", "a", "l", " ", "d", "o", "m">>,
                    <<"r", "e", "c", "o", "n", "c", "i", "l", "i", "a", "t", "i", "o", "n">>,
                    <<"d", "i", "f", "f", "i", "n", "g">>,
                    <<"f", "i", "b", "e", "r", "s">>>>],
     [text |-> "What are the differences between useEffect and useLayoutEffect?",
      keywords |-> <<<<"t", "i", "m", "i", "n", "g">>,
                    <<"l", "a", "y", "o", "u", "t">>,
                    <<"p", "a", "i", "n", "t">>,
                    <<"c", "l", "e", "a", "n", "u", "p">>>>],
     [text |-> "How would you optimize a large list rendering in React?",
      keywords |-> <<<<"v", "i", "r", "t", "u", "a", "l", "i", "z", "e">>,
                    <<"m", "e", "m", "o">>,
                    <<"u", "s", "e", "M", "e", "m", "o">>,
                    <<"u", "s", "e", "C", "a", "l", "l", "b", "a", "c", "k">>,
                    <<"k", "e", "y">>>>],
     [text |-> "Describe how CSS specificity works and how to avoid conflicts.",
      keywords |-> <<<<"s", "p", "e", "c", "i", "f", "i", "c", "i", "t", "y">>,
                    <<"c", "a", "s", "c", "a", "d", "e">>,
                    <<"!", "i", "m", "p", "o", "r", "t", "a", "n", "t">>,
                    <<"B", "E", "M">>>>],
     [text |-> "How do you handle state management at scale?",
      keywords |-> <<<<"r", "e", "d", "u", "x">>,
                    <<"z", "u", "s", "t", "a", "n", "d">>,
                    <<"c", "o", "n", "t", "e", "x", "t">>,
                    <<"a", "t", "o", "m">>,
                    <<"q", "u", "e", "r", "y">>>>]
  >>

BackendBank ==
  <<
     [text |-> "Explain ACID properties in databases.",
      keywords |-> <<<<"a", "t", "o", "m", "i", "c", "i", "t", "y">>,
                    <<"c", "o", "n", "s", "i", "s", "t", "e", "n", "c", "y">>,
                    <<"i", "s", "o", "l", "a", "t", "i", "o", "n">>,
                    <<"d", "u", "r", "a", "b", "i", "l", "i", "t", "y">>>>],
     [text |-> "How does an index work in MongoDB and when to use it?",
      keywords |-> <<<<"b", "-", "t", "r", "e", "e">>,
                    <<"p", "e", "r", "f", "o", "r", "m", "a", "n", "c", "e">>,
                    <<"q", "u", "e", "r", "y">>,
                    <<"s", "o", "r", "t">>>>],
     [text |-> "Describe differences between multiprocessing and multithreading in Python.",
      keywords |-> <<<<"G", "I", "L">>,
                    <<"c", "p", "u", "-", "b", "o", "u", "n", "d">>,
                    <<"i", "o", "-", "b", "o", "u", "n", "d">>>>],
     [text |-> "How would you design a rate limiter for an API?",
      keywords |-> <<<<"t", "o", "k", "e", "n", " ", "b", "u", "c", "k", "e", "t">>,
                    <<"l", "e", "a", "k", "y", " ", "b", "u", "c", "k", "e", "t">>,
                    <<"r", "e", "d", "i", "s">>,
                    <<"s", "l", "i", "d", "i", "n", "g", " ", "w", "i", "n", "d", "o", "w">>>>],
     [text |-> "What is idempotency and why is it important for APIs?",
      keywords |-> <<<<"s", "a", "f", "e">>,
                    <<"r", "e", "t", "r", "y">>,
                    <<"P", "U", "T">>,
                    <<"P", "O", "S", "T">>>>]
  >>


BASE_QUESTIONS(t) ==
  IF t = "frontend" THEN FrontendBank
  ELSE IF t = "backend" THEN BackendBank
  ELSE <<>>

ScanLimit == 100

\* ---------------------------------------------------------------------
\* Schemas (src/schemas.py) and response serialisation
\* ---------------------------------------------------------------------
InterviewFields == {"role", "description", "level", "num_questions", "questions"}

EvaluationFields == {"interview_id", "candidate_name", "answers", "per_question_scores",
                     "per_question_feedback", "total_score", "verdict"}

\* Field(..., ge=1, le=15) on Interview.num_questions
InterviewValid(interview) == interview.num_questions >= 1 /\ interview.num_questions <= 15

\* Question(**q): `keywords` defaults to the empty list
Question(q) ==
  [text |-> q.text, keywords |-> IF "keywords" \in DOMAIN q THEN q.keywords ELSE <<>>]

\* response_model=fields: the response body holds the declared fields of the
\* returned object and nothing else
serialize(obj, fields) == [f \in (DOMAIN obj) \cap fields |-> obj[f]]

\* model_copy(update=upd): a copy whose attributes are overridden or extended
model_copy(obj, upd) == upd @@ obj

\* ---------------------------------------------------------------------
\* Storage collaborator (database module)
\* ---------------------------------------------------------------------
\* create_document: the collection after the insert of doc under identifier id
create_document(coll, doc, id) == Append(coll, ("_id" :> id) @@ doc)

HasId(d) == "_id" \in DOMAIN d

\* get_documents(coll, {"_id": {"$exists": True}}, limit): the `limit` most
\* recent documents of the collection that carry an _id
get_documents(coll, limit) ==
  LET sel == SelectSeq(coll, HasId)
  IN IF Len(sel) > limit THEN SubSeq(sel, Len(sel) - limit + 1, Len(sel)) ELSE sel

\* ---------------------------------------------------------------------
\* Interview assembly
\* ---------------------------------------------------------------------
\* infer_track testing the backend markers first
infer_track_BackendFirst(role) ==
  LET r == lower(role)
  IN IF Contains(W_back, r) \/ Contains(W_api, r) THEN "backend"
     ELSE "frontend"

infer_track(role) ==
  LET r == lower(role)
  IN IF Contains(W_front, r) \/ Contains(W_react, r) THEN "frontend"
     ELSE IF Contains(W_back, r) \/ Contains(W_api, r) THEN "backend"
     ELSE "frontend"

\* SelectQuestions without the lower clamp max(1, ...)
SelectQuestions_NoFloor(t, num_questions) ==
  Prefix(BASE_QUESTIONS(t), Max(0, Min(num_questions, 10)))

\* BASE_QUESTIONS.get(track, [])[: max(1, min(num_questions, 10))]
SelectQuestions(t, num_questions) ==
  Prefix(BASE_QUESTIONS(t), Max(1, Min(num_questions, 10)))

\* the Interview object create_interview builds before it is persisted
BuildInterview(req) ==
  LET t  == infer_track(req.role)
      qa == SelectQuestions(t, req.num_questions)
      questions == List([i \in 1..Len(qa) |->
                           [text |-> qa[i].text, keywords |-> qa[i].keywords]], Len(qa))
  IN [role |-> IF req.role # <<>> THEN req.role ELSE ROLE_DEFAULT(t),
      description |-> IF req.description # <<>> THEN req.description
                      ELSE S_InterviewFor \o req.role,
      level |-> req.level,
      num_questions |-> Len(questions),
      questions |-> questions]

\* ---------------------------------------------------------------------
\* Answer evaluation
\* ---------------------------------------------------------------------
\* round(a / b, 2) counted in hundredths is the integer nearest to 100a / b;
\* RoundHalfEven(n, d) is the integer nearest to n / d, an exact tie going to
\* the even neighbour
RoundHalfEven(n, d) ==
  LET q == n \div d
      r == n % d
  IN IF 2 * r < d THEN q
     ELSE IF 2 * r > d THEN q + 1
     ELSE IF q % 2 = 0 THEN q ELSE q + 1

\* Matches testing the "id" field for truth instead of equality
Matches_TruthyId(it, interview_id) ==
  \/ (IF "_id" \in DOMAIN it THEN Str(it["_id"]) ELSE S_None) = interview_id
  \/ "id" \in DOMAIN it

\* str(it.get("_id")) == interview_id or it.get("id") == interview_id
Matches(it, interview_id) ==
  \/ (IF "_id" \in DOMAIN it THEN Str(it["_id"]) ELSE S_None) = interview_id
  \/ ("id" \in DOMAIN it /\ it["id"] = interview_id)

\* the for/break lookup loop: the first matching document, if any
MatchIndexes(docs, interview_id) == {i \in 1..Len(docs) : Matches(docs[i], interview_id)}

Found(docs, interview_id) == MatchIndexes(docs, interview_id) # {}

FindInterview(docs, interview_id) ==
  LET idx == MatchIndexes(docs, interview_id)
  IN docs[CHOOSE i \in idx : \A j \in idx : i <= j]

\* interview_doc.get("questions", []) converted to Question models
QModels(doc) ==
  LET questions == IF "questions" \in DOMAIN doc THEN doc["questions"] ELSE <<>>
  IN List([i \in 1..Len(questions) |-> Question(questions[i])], Len(questions))

\* Covered without lower-casing the keyword
Covered_CaseSensitive(keywords, ans) ==
  Cardinality({k \in 1..Len(keywords) : Contains(keywords[k], ans)})

\* sum(1 for k in q.keywords if k.lower() in ans)
Covered(keywords, ans) ==
  Cardinality({k \in 1..Len(keywords) : Contains(lower(keywords[k]), ans)})

\* the score of one question in hundredths; ans is answers[i].lower()
Score(q, ans) ==
  IF q.keywords # <<>>
  THEN RoundHalfEven(10000 * Covered(q.keywords, ans), Len(q.keywords))
  ELSE IF Len(split(ans)) > 5 THEN 5000 ELSE 2000

\* Missing without lower-casing the keyword
Missing_CaseSensitive(q, ans) ==
  LET Absent(k) == ~Contains(k, ans)
  IN SelectSeq(q.keywords, Absent)

\* [k for k in q.keywords if k.lower() not in ans]
Missing(q, ans) ==
  LET Absent(k) == ~Contains(lower(k), ans)
  IN SelectSeq(q.keywords, Absent)

Feedback(score, missing) ==
  IF score > 7000 THEN S_GoodCoverage
  ELSE IF missing # <<>> THEN S_MissingPrefix \o join(S_CommaSpace, missing)
  ELSE S_CouldBeMoreSpecific

\* one iteration of the scoring loop: the score and feedback appended for
\* question q and its answer
ScoreQuestion(q, answer) ==
  LET ans   == lower(answer)
      score == Score(q, ans)
  IN [score |-> score, fb |-> Feedback(score, Missing(q, ans))]

\* the scoring loop over enumerate(q_models)
ScoreAll(q_models, answers) ==
  List([i \in 1..Len(q_models) |-> ScoreQuestion(q_models[i], answers[i])], Len(q_models))

\* round(total / n, 2) if n else 0.0, in hundredths.  total is a sum of
\* binary floats: when total / n lies exactly between two hundredths the
\* float may be on either side of the tie, so both neighbours are possible
AvgChoices(per_scores) ==
  LET n     == Len(per_scores)
      total == SumSeq(per_scores)
  IN IF n = 0 THEN {0}
     ELSE IF 2 * (total % n) = n THEN {total \div n, (total \div n) + 1}
     ELSE {RoundHalfEven(total, n)}

\* Verdict with strict comparisons at the thresholds
Verdict_Strict(avg) ==
  IF avg > 7500 THEN "Strong match"
  ELSE IF avg > 5000 THEN "Promising but needs work"
  ELSE "Below expectations"

Verdict(avg) ==
  IF avg >= 7500 THEN "Strong match"
  ELSE IF avg >= 5000 THEN "Promising but needs work"
  ELSE "Below expectations"

\* the Evaluation object evaluate_answers builds
BuildEvaluation(req, per_scores, per_feedback, avg) ==
  [interview_id |-> req.interview_id,
   candidate_name |-> req.candidate_name,
   answers |-> req.answers,
   per_question_scores |-> per_scores,
   per_question_feedback |-> per_feedback,
   total_score |-> avg,
   verdict |-> Verdict(avg)]

HTTPException(code) == [status |-> code]

Call(fn, coll, ok) == [fn |-> fn, collection |-> coll, ok |-> ok]

\* except Exception as e: raise HTTPException(status_code=500, ...)
CreateFailure == HTTPException(500)

\* LengthMismatch that lets surplus answers through (they would be ignored)
LengthMismatch_Truncating(answers, q_models) == Len(answers) < Len(q_models)

\* if len(answers) != len(q_models): raise HTTPException(status_code=400, ...)
LengthMismatch(answers, q_models) == Len(answers) # Len(q_models)

\* EvaluateResponse when the write's failure is surfaced instead of swallowed
EvaluateResponse_Surfaced(evaluation, writeOk) ==
  IF writeOk THEN [status |-> 200, body |-> serialize(evaluation, EvaluationFields)]
  ELSE HTTPException(500)

\* try: create_document("evaluation", evaluation) / except Exception: pass /
\* return evaluation: the response does not depend on the write's outcome
EvaluateResponse(evaluation, writeOk) ==
  [status |-> 200, body |-> serialize(evaluation, EvaluationFields)]

\* ---------------------------------------------------------------------
\* Handlers
\* ---------------------------------------------------------------------
\* POST /api/interviews; writeOk is whether create_document succeeds
create_interview(req, writeOk) ==
  LET interview == BuildInterview(req)
  IN /\ request' = [op |-> "create_interview"] @@ req
     /\ track' = infer_track(req.role)
     /\ UNCHANGED evaluations
     /\ IF ~InterviewValid(interview)
        THEN /\ response' = HTTPException(500)
             /\ calls' = <<>>
             /\ UNCHANGED <<interviews, nextId>>
        ELSE /\ calls' = <<Call("create_document", "interview", writeOk)>>
             /\ IF writeOk
                THEN /\ interviews' = create_document(interviews, interview, nextId)
                     /\ nextId' = nextId + 1
                     /\ response' =
                          [status |-> 200,
                           body |-> serialize(model_copy(interview, [id |-> Str(nextId)]),
                                              InterviewFields)]
                ELSE /\ response' = CreateFailure
                     /\ UNCHANGED <<interviews, nextId>>

\* what one run of evaluate_answers does: its response, its storage calls
\* and the Evaluation it gets written (none, or one)
Outcome(resp, storageCalls, written) ==
  [response |-> resp, calls |-> storageCalls, written |-> written]

\* the body of evaluate_answers on request req against the stored interviews;
\* readOk and writeOk are whether get_documents and create_document succeed.
\* More than one outcome is possible only where the rounding of the average
\* is a tie (AvgChoices)
evaluate_outcomes(req, stored, readOk, writeOk) ==
  IF ~readOk
  THEN {Outcome(HTTPException(500), <<Call("get_documents", "interview", FALSE)>>, <<>>)}
  ELSE
    LET docs == get_documents(stored, ScanLimit)
    IN IF ~Found(docs, req.interview_id)
       THEN {Outcome(HTTPException(404), <<Call("get_documents", "interview", TRUE)>>, <<>>)}
       ELSE
         LET q_models == QModels(FindInterview(docs, req.interview_id))
         IN IF LengthMismatch(req.answers, q_models)
            THEN {Outcome(HTTPException(400),
                          <<Call("get_documents", "interview", TRUE)>>, <<>>)}
            ELSE
              LET scored       == ScoreAll(q_models, req.answers)
                  n            == Len(scored)
                  per_scores   == List([i \in 1..n |-> scored[i].score], n)
                  per_feedback == List([i \in 1..n |-> scored[i].fb], n)
              IN { LET evaluation == BuildEvaluation(req, per_scores, per_feedback, avg)
                   IN Outcome(EvaluateResponse(evaluation, writeOk),
                              <<Call("get_documents", "interview", TRUE),
                                Call("create_document", "evaluation", writeOk)>>,
                              IF writeOk THEN <<evaluation>> ELSE <<>>)
                   : avg \in AvgChoices(per_scores) }

\* POST /api/evaluate
evaluate_answers(req, readOk, writeOk) ==
  \E out \in evaluate_outcomes(req, interviews, readOk, writeOk) :
    /\ request' = [op |-> "evaluate_answers"] @@ req
    /\ track' = "none"
    /\ response' = out.response
    /\ calls' = out.calls
    /\ UNCHANGED interviews
    /\ IF out.written # <<>>
       THEN /\ evaluations' = create_document(evaluations, out.written[1], nextId)
            /\ nextId' = nextId + 1
       ELSE UNCHANGED <<evaluations, nextId>>

\* ---------------------------------------------------------------------
\* Inputs
\* ---------------------------------------------------------------------
A_Acid == <<"T", "h", "e", " ", "d", "a", "t", "a", "b", "a", "s", "e", " ", "g", "u", "a", "r", "a", "n", "t", "e", "e", "s", " ", "a", "t", "o", "m", "i", "c", "i", "t", "y", " ", "a", "n", "d", " ", "c", "o", "n", "s", "i", "s", "t", "e", "n", "c", "y">>
A_Empty == <<>>
A_Gil == <<"t", "h", "e", " ", "G", "i", "l">>
A_Mixed == <<"G", "I", "L", " ", "c", "p", "u", "-", "b", "o", "u", "n", "d", " ", "I", "O", "-", "b", "o", "u", "n", "d", " ", "a", "t", "o", "m", "i", "c", "i", "t", "y", " ", "I", "s", "o", "l", "a", "t", "i", "o", "n", " ", "d", "u", "r", "a", "b", "i", "l", "i", "t", "y">>

Answers == {A_Acid, A_Empty, A_Gil, A_Mixed}

RECURSIVE SeqsUpTo(_, _)
\* the sequences over S of length at most n
SeqsUpTo(S, n) ==
  IF n = 0 THEN {<<>>}
  ELSE LET shorter == SeqsUpTo(S, n - 1)
       IN shorter \cup {Append(xs, x) : xs \in {ys \in shorter : Len(ys) = n - 1}, x \in S}

AnswerLists == SeqsUpTo(Answers, MaxAnswers)

R_BackendApi == <<"B", "a", "c", "k", "e", "n", "d", " ", "A", "P", "I", " ", "E", "n", "g", "i", "n", "e", "e", "r">>
R_React == <<"S", "e", "n", "i", "o", "r", " ", "R", "e", "a", "c", "t", " ", "D", "e", "v", "e", "l", "o", "p", "e", "r">>
R_Data == <<"D", "a", "t", "a", " ", "S", "c", "i", "e", "n", "t", "i", "s", "t">>
D_Custom == <<"J", "D">>
ID_Legacy == <<"l", "e", "g", "a", "c", "y", "-", "7">>

\* documents that were in the interview collection before the service started:
\* one written with a caller-supplied "id" and questions stored as plain
\* mappings (the first without keywords), one without any questions
SeedInterviews ==
  << [_id |-> 1, id |-> ID_Legacy, role |-> R_Data, level |-> "senior",
      questions |-> << [text |-> "Tell us about a project you are proud of."],
                       [text |-> "Describe differences between multiprocessing and multithreading in Python.",
                        keywords |-> <<<<"G", "I", "L">>,
                                       <<"c", "p", "u", "-", "b", "o", "u", "n", "d">>,
                                       <<"i", "o", "-", "b", "o", "u", "n", "d">>>>] >>],
     [_id |-> 2, role |-> R_React, level |-> "junior"] >>

InterviewRequests ==
  [role : {R_BackendApi}, level : {"mid"}, description : {<<>>}, num_questions : {0, 2}]

InterviewIds == {ID_Legacy, Str(3), Str(99)}

\* the storage outcomes of one evaluate request: the read fails (no write is
\* attempted), or the read succeeds and the write succeeds or fails
StorageOutcomes ==
  {[readOk |-> FALSE, writeOk |-> FALSE],
   [readOk |-> TRUE, writeOk |-> FALSE],
   [readOk |-> TRUE, writeOk |-> TRUE]}

EvaluateRequests ==
  [interview_id : InterviewIds, candidate_name : {"Ada"},
   answers : SeqsUpTo({A_Acid, A_Empty}, MaxAnswers)]

\* ---------------------------------------------------------------------
\* The service: any sequence of requests
\* ---------------------------------------------------------------------
InitWith(stored) ==
  /\ interviews = stored
  /\ evaluations = <<>>
  /\ nextId = Len(stored) + 1
  /\ request = [op |-> "none"]
  /\ track = "none"
  /\ calls = <<>>
  /\ response = [status |-> 0]

Init == InitWith(SeedInterviews)

CreateInterview ==
  /\ Len(interviews) < Len(SeedInterviews) + MaxInterviews
  /\ \E req \in InterviewRequests, writeOk \in BOOLEAN : create_interview(req, writeOk)

EvaluateAnswers ==
  /\ Len(evaluations) < MaxEvaluations
  /\ \E req \in EvaluateRequests, io \in StorageOutcomes :
       evaluate_answers(req, io.readOk, io.writeOk)

Next == CreateInterview \/ EvaluateAnswers

Spec == Init /\ [][Next]_vars

\* ---------------------------------------------------------------------
\* Scoring: at most one interview is assembled, then one evaluation request
\* with answers from the whole answer set
\* ---------------------------------------------------------------------
ScoredInterviewRequests ==
  [role : {<<>>, R_BackendApi}, level : {"mid"}, description : {<<>>},
   num_questions : {0, 2}]

ScoringRequests ==
  [interview_id : {ID_Legacy, Str(2), Str(3), Str(99)}, candidate_name : {"Ada"},
   answers : AnswerLists]

AssembleScored ==
  /\ request.op = "none"
  /\ \E req \in ScoredInterviewRequests : create_interview(req, TRUE)

ScoreAnswers ==
  /\ request.op # "evaluate_answers"
  /\ \E req \in ScoringRequests, io \in StorageOutcomes :
       evaluate_answers(req, io.readOk, io.writeOk)

NextEval == AssembleScored \/ ScoreAnswers

SpecEval == Init /\ [][NextEval]_vars

\* ---------------------------------------------------------------------
\* Interview assembly over many roles and requested counts
\* ---------------------------------------------------------------------
RoleTokens == {<<"F", "r", "o">>, <<"n", "t">>, <<"R", "E", "A", "C", "T">>, <<"B", "a", "c", "k">>,
               <<"a", "p">>, <<"I">>, <<"D", "a", "t", "a">>, <<" ">>}

RECURSIVE Concat(_)
Concat(parts) == IF parts = <<>> THEN <<>> ELSE parts[1] \o Concat(Tail(parts))

Roles == {Concat(ts) : ts \in SeqsUpTo(RoleTokens, MaxRoleTokens)}

NumQuestionInputs == {-1, 0, 1, 2, 3, 4, 5, 6, 9, 10, 11, 100}

AssembleRequests ==
  [role : Roles, level : {"mid"}, description : {<<>>, D_Custom},
   num_questions : NumQuestionInputs]

\* one assembly request per behaviour
AssembleInterview ==
  /\ request.op = "none"
  /\ \E req \in AssembleRequests, writeOk \in BOOLEAN : create_interview(req, writeOk)

NextAssemble == AssembleInterview

SpecAssemble == Init /\ [][NextAssemble]_vars

\* ---------------------------------------------------------------------
\* A store that grows past the lookup's scan window
\* ---------------------------------------------------------------------
ScanRequests ==
  [role : {R_BackendApi}, level : {"mid"}, description : {D_Custom}, num_questions : {1}]

ScanEvaluateRequests ==
  [interview_id : {Str(1), Str(2)}, candidate_name : {"Ada"},
   answers : {<<>>, <<A_Acid>>}]

InitScan == InitWith(<<>>)

ScanCreate ==
  /\ Len(interviews) < MaxScanInterviews
  /\ \E req \in ScanRequests, writeOk \in BOOLEAN : create_interview(req, writeOk)

ScanEvaluate ==
  /\ Len(evaluations) < MaxEvaluations
  /\ \E req \in ScanEvaluateRequests, io \in StorageOutcomes :
       evaluate_answers(req, io.readOk, io.writeOk)

NextScan == ScanCreate \/ ScanEvaluate

SpecScan == InitScan /\ [][NextScan]_vars

\* ---------------------------------------------------------------------
\* Properties
\* ---------------------------------------------------------------------
\* the last request was an evaluation that returned an Evaluation
Evaluated == request.op = "evaluate_answers" /\ response.status = 200

\* the questions of the interview the last evaluation request refers to
EvaluatedQuestions ==
  QModels(FindInterview(get_documents(interviews, ScanLimit), request.interview_id))

\* x is an integer nearest to num / den
Nearest(x, num, den) ==
  /\ 2 * (x * den - num) <= den
  /\ 2 * (num - x * den) <= den

\* the number of keywords occurring, case-insensitively, in the answer
KeywordsFound(keywords, answer) ==
  Cardinality({k \in 1..Len(keywords) : Contains(lower(keywords[k]), lower(answer))})

\* the keywords not occurring, case-insensitively, in the answer, in bank order
KeywordsMissing(keywords, answer) ==
  LET NotIn(k) == ~Contains(lower(k), lower(answer))
  IN SelectSeq(keywords, NotIn)

\* C1: every score of a returned Evaluation is round(100 * c / n, 2) for a
\* question with n > 0 keywords of which c occur in the answer, and 50.0 or
\* 20.0 for a question without keywords according to whether the answer has
\* more than 5 words; every score lies in [0, 100]
C1_ScoreRule ==
  Evaluated =>
    LET qs     == EvaluatedQuestions
        scores == response.body.per_question_scores
    IN /\ Len(scores) = Len(qs)
       /\ \A i \in 1..Len(qs) :
            LET kw == qs[i].keywords
                a  == request.answers[i]
            IN /\ kw # <<>> =>
                    Nearest(scores[i], 10000 * KeywordsFound(kw, a), Len(kw))
               /\ kw = <<>> =>
                    scores[i] = (IF Len(split(a)) > 5 THEN 5000 ELSE 2000)
               /\ scores[i] >= 0 /\ scores[i] <= 10000

\* an Evaluation holding 50.0 for a question without keywords and 33.33 for
\* a question of which one keyword in three was found
C1_Witness ==
  /\ Evaluated
  /\ \E i, j \in 1..Len(EvaluatedQuestions) :
       /\ EvaluatedQuestions[i].keywords = <<>>
       /\ response.body.per_question_scores[i] = 5000
       /\ Len(EvaluatedQuestions[j].keywords) = 3
       /\ response.body.per_question_scores[j] = 3333

\* C2: total_score is the mean of the scores rounded to two decimals (0.0
\* without questions) and the verdict follows from it: >= 75 "Strong match",
\* else >= 50 "Promising but needs work", else "Below expectations"
C2_VerdictRule ==
  Evaluated =>
       LET b == response.body
           n == Len(b.per_question_scores)
       IN /\ n = 0 => b.total_score = 0
          /\ n > 0 => Nearest(b.total_score, SumSeq(b.per_question_scores), n)
          /\ b.total_score >= 7500 => b.verdict = "Strong match"
          /\ (b.total_score < 7500 /\ b.total_score >= 5000) =>
               b.verdict = "Promising but needs work"
          /\ b.total_score < 5000 => b.verdict = "Below expectations"
          /\ Verdict(7500) = "Strong match"
          /\ Verdict(7499) = "Promising but needs work"
          /\ Verdict(5000) = "Promising but needs work"
          /\ Verdict(4999) = "Below expectations"

\* an Evaluation whose total is exactly 75.0
C2_Witness ==
  /\ Evaluated
  /\ response.body.total_score = 7500
  /\ response.body.verdict = "Strong match"

\* the feedback the claim gives for keywords kw, answer a and score s
FeedbackRule(kw, a, s) ==
  IF s > 7000 THEN S_GoodCoverage
  ELSE IF KeywordsMissing(kw, a) # <<>>
       THEN S_MissingPrefix \o join(S_CommaSpace, KeywordsMissing(kw, a))
       ELSE S_CouldBeMoreSpecific

\* C9 as stated: the feedback follows the three-way rule, and "Could be more
\* specific." is given only to a question without keywords scored 20.0
C9_Original ==
  Evaluated =>
    \A i \in 1..Len(EvaluatedQuestions) :
      LET kw == EvaluatedQuestions[i].keywords
          s  == response.body.per_question_scores[i]
          fb == response.body.per_question_feedback[i]
      IN /\ fb = FeedbackRule(kw, request.answers[i], s)
         /\ fb = S_CouldBeMoreSpecific => (kw = <<>> /\ s = 2000)

\* C9 as amended: the feedback follows the three-way rule, and "Could be more
\* specific." is given only to a question without keywords, scored 20.0 or 50.0
C9_FeedbackRule ==
  Evaluated =>
    \A i \in 1..Len(EvaluatedQuestions) :
      LET kw == EvaluatedQuestions[i].keywords
          s  == response.body.per_question_scores[i]
          fb == response.body.per_question_feedback[i]
      IN /\ fb = FeedbackRule(kw, request.answers[i], s)
         /\ fb = S_CouldBeMoreSpecific => (kw = <<>> /\ s \in {2000, 5000})

\* a question without keywords answered in more than five words: 50.0 and
\* "Could be more specific."
C9_Witness ==
  /\ Evaluated
  /\ \E i \in 1..Len(EvaluatedQuestions) :
       /\ response.body.per_question_feedback[i] = S_CouldBeMoreSpecific
       /\ response.body.per_question_scores[i] = 5000

\* the last request went to the handler op
Handled(op) == request.op = op

\* the last handler read the interview collection successfully
ReadSucceeded ==
  Len(calls) >= 1 /\ calls[1].fn = "get_documents" /\ calls[1].ok

\* the create_document calls of the last handler on collection coll
Writes(coll) ==
  {i \in 1..Len(calls) : calls[i].fn = "create_document" /\ calls[i].collection = coll}

\* the stored interviews the last request's interview_id refers to, by
\* storage-assigned id or by "id" field
Referenced ==
  {i \in 1..Len(interviews) :
     \/ Str(interviews[i]["_id"]) = request.interview_id
     \/ ("id" \in DOMAIN interviews[i] /\ interviews[i]["id"] = request.interview_id)}

\* the number of questions of the first referenced interview
ReferencedQuestionCount ==
  LET doc == interviews[CHOOSE i \in Referenced : \A j \in Referenced : i <= j]
  IN IF "questions" \in DOMAIN doc THEN Len(doc["questions"]) ELSE 0

\* C3: an evaluation request that finds its interview but brings a different
\* number of answers than the interview has questions is answered 400 and
\* nothing else: no Evaluation, no write of an evaluation record
C3_MismatchRejected ==
  /\ [](( /\ Handled("evaluate_answers") /\ ReadSucceeded
          /\ Referenced # {}
          /\ Len(request.answers) # ReferencedQuestionCount )
        => ( /\ response = [status |-> 400]
             /\ Writes("evaluation") = {} ))
  /\ [][(Handled("evaluate_answers")' /\ response'.status = 400)
          => evaluations' = evaluations]_vars

\* a rejected request with more answers than questions
C3_Witness ==
  /\ Handled("evaluate_answers")
  /\ response.status = 400
  /\ Referenced # {}
  /\ Len(request.answers) > ReferencedQuestionCount

\* C4: when the read succeeds and no stored interview has the requested id,
\* the request is answered 404 and nothing else: no Evaluation, no write
C4_NotFound ==
  /\ [](( /\ Handled("evaluate_answers") /\ ReadSucceeded
          /\ Referenced = {} )
        => ( /\ response = [status |-> 404]
             /\ Writes("evaluation") = {} ))
  /\ [][(Handled("evaluate_answers")' /\ response'.status = 404)
          => evaluations' = evaluations]_vars

\* a request for an unknown id against a store that holds interviews
C4_Witness ==
  /\ Handled("evaluate_answers")
  /\ response.status = 404
  /\ Len(interviews) > Len(SeedInterviews)
  /\ Len(request.answers) > 0

\* C6: a failed write of an interview is answered 500 without an Interview;
\* a failed write of an evaluation is answered exactly as the same request
\* is answered when the write succeeds; no handler writes twice
C6_WriteFailures ==
  /\ [](( Handled("create_interview") /\ \E i \in Writes("interview") : ~calls[i].ok )
        => response = [status |-> 500])
  /\ [](Cardinality(Writes("interview")) + Cardinality(Writes("evaluation")) <= 1)
  /\ [][( /\ Handled("evaluate_answers")'
          /\ \E i \in 1..Len(calls') :
               /\ calls'[i].fn = "create_document" /\ calls'[i].collection = "evaluation"
               /\ ~calls'[i].ok )
        => ( /\ evaluations' = evaluations
             /\ response' \in
                  {o.response :
                     o \in evaluate_outcomes([f \in DOMAIN request' \ {"op"} |-> request'[f]],
                                             interviews, TRUE, TRUE)}
             /\ response'.status = 200 )]_vars

\* an evaluation returned although its write failed
C6_Witness ==
  /\ Handled("evaluate_answers")
  /\ \E i \in Writes("evaluation") : ~calls[i].ok
  /\ response.status = 200
  /\ Len(response.body.per_question_scores) = 2
  /\ evaluations = <<>>

\* C7 as stated: the Interview a successful create_interview returns carries
\* the identifier the store assigned to the record just written
C7_ReturnedInterviewCarriesId ==
  (Handled("create_interview") /\ response.status = 200)
    => ( /\ "id" \in DOMAIN response.body
         /\ response.body["id"] = Str(interviews[Len(interviews)]["_id"]) )

\* clamp(n, lo, hi)
Clamp(n, lo, hi) == IF n < lo THEN lo ELSE IF n > hi THEN hi ELSE n

\* C5: create_interview hands the store one interview whose questions are
\* the first min(clamp(num_questions, 1, 10), bank size) entries of the
\* inferred track's bank, in bank order, and whose num_questions is their
\* number: 1 for a request of 0 or less, 5 for a request of 100, never
\* more than 10
C5_QuestionSelection ==
  Handled("create_interview") =>
    LET bank == BASE_QUESTIONS(track)
        n    == Min(Clamp(request.num_questions, 1, 10), Len(bank))
    IN /\ Cardinality(Writes("interview")) = 1
       /\ (\E i \in Writes("interview") : calls[i].ok) =>
            LET stored == interviews[Len(interviews)]
            IN /\ response.status = 200
               /\ response.body.questions = SubSeq(bank, 1, n)
               /\ response.body.num_questions = Len(response.body.questions)
               /\ stored.questions = response.body.questions
               /\ stored.num_questions = Len(stored.questions)
               /\ Len(stored.questions) <= 10
               /\ request.num_questions <= 0 => Len(stored.questions) = 1
               /\ request.num_questions = 100 => Len(stored.questions) = 5

\* a request for 100 questions answered with the five of the backend bank
C5_Witness ==
  /\ Handled("create_interview")
  /\ request.num_questions = 100
  /\ response.status = 200
  /\ track = "backend"
  /\ Len(response.body.questions) = 5

\* C8: infer_track(role) is frontend when the lower-cased role contains
\* "front" or "react", otherwise backend when it contains "back" or "api",
\* otherwise frontend; it has a value for every role
C8_TrackRule ==
  Handled("create_interview") =>
    LET r  == lower(request.role)
        fe == Contains(W_front, r) \/ Contains(W_react, r)
        be == Contains(W_back, r) \/ Contains(W_api, r)
    IN /\ track \in {"frontend", "backend"}
       /\ fe => track = "frontend"
       /\ (~fe /\ be) => track = "backend"
       /\ (~fe /\ ~be) => track = "frontend"
       /\ request.role = <<>> => track = "frontend"

\* a role with a frontend marker and a backend marker, classified frontend
C8_Witness ==
  /\ Handled("create_interview")
  /\ Contains(W_react, lower(request.role))
  /\ Contains(W_back, lower(request.role))
  /\ track = "frontend"

\* C10 as stated: when the read succeeds, a request for the storage-assigned
\* id of a stored interview is never answered 404
C10_StoredInterviewFound ==
  ( /\ Handled("evaluate_answers") /\ ReadSucceeded
    /\ \E i \in 1..Len(interviews) : Str(interviews[i]["_id"]) = request.interview_id )
  => response.status # 404

====
